---------------------------- MODULE Spec2Model ----------------------------
(* A model of theimagingsource.py: the DMK_x3GP031 camera session, a thin   *)
(* sequencing layer over the vendor driver (tisgrabber_x64, bound as `dll`). *)
(*                                                                          *)
(* Every method of the class is one action.  A method is computed by an     *)
(* operator over a "machine" record m that threads the Python object        *)
(* (m.self), the driver and device (m.drv), the caller's buffer (m.out),    *)
(* the file on disk (m.tif), the driver calls issued so far (m.calls) and   *)
(* the pending exception (m.err).  The driver is opaque: what its calls     *)
(* report is an input of each action (m.d).                                 *)
EXTENDS Integers, Sequences, FiniteSets, TLC

VARIABLES
    phase,          \* "new": before DMK_x3GP031(); "open": the object exists; "failed": __init__ raised
    self,           \* the attributes of the DMK_x3GP031 object
    drv,            \* the driver's and the device's state
    buffer,         \* the caller's numpy buffer after the method, NoBuffer if it passed none
    tif,            \* the image the method wrote with np_tif.array_to_tif, None if none
    np_tif,         \* whether `import np_tif` succeeded
    op,             \* the last method called, with its arguments
    calls,          \* the driver calls that method issued, in order
    result          \* "ok", or the exception the method raised

vars == <<phase, self, drv, buffer, tif, np_tif, op, calls, result>>

----------------------------------------------------------------------------
(* Bounds of the model *)

\* the driver's exposure range is DefaultExposure -/+ ExpRadius microseconds
ExpRadius == 2
\* the most driver calls one method other than __init__ makes
MaxCalls == 8
\* the grid, in microseconds, the driver rounds an exposure down to
ExposureStep == 2
\* the most driver calls __init__ makes
MaxInitCalls == 26

----------------------------------------------------------------------------
(* Constants of the program *)

dll_success == 1
dll_error == 0
dll_exposure == 4
Y16_mode == 4
\* exposure_seconds=0.1, the exposure __init__ asks for, in half microseconds
DefaultExposureSeconds == 200000
\* the timeout snap passes when the caller gives none
NoTimeout == -1

\* what a call without status is recorded with
NoStatus == -1

None == <<>>
Some(x) == <<x>>

\* b'Y16'
Y16 == <<"Y", "1", "6">>
\* b'Y16 (2592x1944)'
Y16_2592x1944 == <<"Y","1","6"," ","(","2","5","9","2","x","1","9","4","4",")">>
\* "Y16 (1024x768)", the format main() asks for
Y16_1024x768 == <<"Y","1","6"," ","(","1","0","2","4","x","7","6","8",")">>
Y16_640x480 == <<"Y","1","6"," ","(","6","4","0","x","4","8","0",")">>
Y800_2592x1944 == <<"Y","8","0","0"," ","(","2","5","9","2","x","1","9","4","4",")">>
\* '.tif'
DotTif == <<".", "t", "i", "f">>

\* the names bound at module level of theimagingsource.py
ModuleGlobals ==
    {"C", "np", "np_tif", "DMK_x3GP031", "main", "dll", "GrabberHandle_t", "GrabberHandle"}

----------------------------------------------------------------------------
(* Python built-ins the methods use *)

\* bytes.startswith
startswith(s, prefix) ==
    /\ Len(prefix) <= Len(s)
    /\ SubSeq(s, 1, Len(prefix)) = prefix

\* str.endswith
endswith(s, suffix) ==
    /\ Len(suffix) <= Len(s)
    /\ SubSeq(s, Len(s) - Len(suffix) + 1, Len(s)) = suffix

\* `x in list`
In(x, list) == \E i \in 1..Len(list) : list[i] = x

\* int(x) of the quotient num/den: truncation toward zero
int(num, den) ==
    IF num >= 0 THEN num \div den ELSE -((-num) \div den)

----------------------------------------------------------------------------
(* The driver (tisgrabber_x64.dll) as the methods see it.  Each entry point  *)
(* records the call (with the device's streaming state and the handle's      *)
(* state at that moment) and leaves what it returned in m.ret.  A status-    *)
(* returning call reports dll_error when it is the m.d.failAt-th call of the *)
(* method, dll_success otherwise; it changes the device only when it reports *)
(* success on a handle that is open and not released.                        *)

\* the (width, height) the driver negotiates for a video format
DriverDims(fmt) ==
    IF fmt = Y16_1024x768 THEN <<1, 2>> ELSE <<2, 1>>

\* the frames the sensor can deliver: width * height little-endian 16-bit samples
Frames ==
    { <<255, 255, 16, 0>>, <<15, 0, 52, 18>> }

HandleValid(m) ==
    m.drv.created /\ m.drv.opened /\ ~m.drv.released

\* has_status: whether the entry point returns a status (its restype)
dll_call(m, fn, arg, has_status) ==
    [m EXCEPT !.calls = Append(@,
        [fn  |-> fn,
         arg |-> arg,
         dev |-> m.drv.streaming,
         rel |-> m.drv.released,
         st  |-> IF ~has_status THEN NoStatus
                 ELSE IF Len(m.calls) + 1 = m.d.failAt THEN dll_error
                 ELSE dll_success])]

\* what the call just recorded reports
Status(c) ==
    c.calls[Len(c.calls)].st

Effective(c) ==
    Status(c) = dll_success /\ HandleValid(c)

dll_start_live(m) ==
    LET c == dll_call(m, "start_live", 0, TRUE) IN
    [c EXCEPT !.ret = Status(c),
              !.drv.streaming = IF Effective(c) THEN TRUE ELSE @]

\* restype None: no status
dll_stop_live(m) ==
    LET c == dll_call(m, "stop_live", 0, FALSE) IN
    [c EXCEPT !.ret = None, !.drv.streaming = FALSE]

dll_snap_image(m, timeout) ==
    LET c == dll_call(m, "snap_image", timeout, TRUE) IN
    [c EXCEPT !.ret = Status(c),
              !.drv.frame = IF Effective(c) THEN c.d.frame ELSE @]

dll_get_image_pointer(m) ==
    LET c == dll_call(m, "get_image_pointer", 0, FALSE) IN
    [c EXCEPT !.ret = c.drv.frame]

dll_set_video_format(m, fmt) ==
    LET c == dll_call(m, "set_video_format", 0, TRUE) IN
    [c EXCEPT !.ret = Status(c),
              !.drv.videoFormat = IF Effective(c) THEN fmt ELSE @]

dll_remove_overlay(m) ==
    LET c == dll_call(m, "remove_overlay", 0, TRUE) IN
    [c EXCEPT !.ret = Status(c)]

dll_set_format(m, mode) ==
    LET c == dll_call(m, "set_format", mode, TRUE) IN
    [c EXCEPT !.ret = Status(c)]

dll_get_format(m) ==
    LET c == dll_call(m, "get_format", 0, FALSE) IN
    [c EXCEPT !.ret = c.d.report[1]]

\* returns <<status, width, height, bit_depth, color>>
dll_get_image_description(m) ==
    LET c == dll_call(m, "get_image_description", 0, TRUE)
        dims == DriverDims(c.drv.videoFormat) IN
    [c EXCEPT !.ret = <<Status(c), dims[1], dims[2], c.d.report[2], c.d.report[3]>>]

\* returns <<status, value>>
dll_get_auto_property(m) ==
    LET c == dll_call(m, "get_auto_property", 0, TRUE) IN
    [c EXCEPT !.ret = <<Status(c), c.drv.auto>>]

dll_set_auto_property(m, onoff) ==
    LET c == dll_call(m, "set_auto_property", onoff, TRUE) IN
    [c EXCEPT !.ret = Status(c),
              !.drv.auto = IF Effective(c) /\ c.d.honour THEN onoff ELSE @]

\* returns <<status, min, max>>
dll_get_property_range(m) ==
    LET c == dll_call(m, "get_property_range", 0, TRUE) IN
    [c EXCEPT !.ret = <<Status(c), c.drv.range[1], c.drv.range[2]>>]

\* the driver rounds the value down to its grid
dll_set_property(m, value) ==
    LET c == dll_call(m, "set_property", value, TRUE) IN
    [c EXCEPT !.ret = Status(c),
              !.drv.exposure = IF Effective(c)
                               THEN value - (value % ExposureStep) ELSE @]

\* returns <<status, value>>
dll_get_property(m) ==
    LET c == dll_call(m, "get_property", 0, TRUE) IN
    [c EXCEPT !.ret = <<Status(c), c.drv.exposure>>]

dll_is_trigger_available(m) ==
    LET c == dll_call(m, "is_trigger_available", 0, TRUE) IN
    [c EXCEPT !.ret = Status(c)]

dll_enable_trigger(m, enable) ==
    LET c == dll_call(m, "enable_trigger", IF enable THEN 1 ELSE 0, TRUE) IN
    [c EXCEPT !.ret = Status(c)]

dll_software_trigger(m) ==
    LET c == dll_call(m, "software_trigger", 0, TRUE) IN
    [c EXCEPT !.ret = Status(c)]

\* restype None: no status; the device does not stream once released
dll_release_grabber(m) ==
    LET c == dll_call(m, "release_grabber", 0, FALSE) IN
    [c EXCEPT !.ret = None, !.drv.released = TRUE, !.drv.streaming = FALSE]

dll_get_device_count(m) ==
    LET c == dll_call(m, "get_device_count", 0, FALSE) IN
    [c EXCEPT !.ret = Len(c.drv.devices)]

\* d counts from 0
dll_get_unique_name_from_list(m, d) ==
    LET c == dll_call(m, "get_unique_name_from_list", d, FALSE) IN
    [c EXCEPT !.ret = c.drv.devices[d + 1]]

dll_create_grabber(m) ==
    LET c == dll_call(m, "create_grabber", 0, FALSE) IN
    [c EXCEPT !.ret = TRUE, !.drv.created = TRUE]

dll_open_by_name(m, name) ==
    LET c == dll_call(m, "open_by_name", name, TRUE) IN
    [c EXCEPT !.ret = Status(c),
              !.drv.opened = IF Status(c) = dll_success /\ c.drv.created
                                /\ ~c.drv.released
                             THEN TRUE ELSE @]

dll_is_valid(m) ==
    LET c == dll_call(m, "is_valid", 0, TRUE) IN
    [c EXCEPT !.ret = Status(c)]

dll_get_video_format_count(m) ==
    LET c == dll_call(m, "get_video_format_count", 0, FALSE) IN
    [c EXCEPT !.ret = Len(c.drv.formats)]

\* f counts from 0
dll_get_video_format(m, f) ==
    LET c == dll_call(m, "get_video_format", f, FALSE) IN
    [c EXCEPT !.ret = c.drv.formats[f + 1]]

----------------------------------------------------------------------------
(* Exceptions: a method that has raised does nothing more *)

Raise(m, e) == [m EXCEPT !.err = e]
Raised(m) == m.err # "ok"

----------------------------------------------------------------------------
(* The methods of DMK_x3GP031 *)

\* a start_live that sets the flag before it asks the driver
start_live_flag_first(m) ==
    LET c == dll_start_live([m EXCEPT !.self.live = TRUE]) IN
    IF c.ret # dll_success THEN Raise(c, "StartLiveFailed") ELSE c

start_live(m) ==
    LET c == dll_start_live(m) IN
    IF c.ret # dll_success THEN Raise(c, "StartLiveFailed")
    ELSE [c EXCEPT !.self.live = TRUE]

stop_live(m) ==
    LET c == dll_stop_live(m) IN
    IF c.ret # None THEN Raise(c, "AssertionError")
    ELSE [c EXCEPT !.self.live = FALSE]

get_image_information(m, verbose) ==
    LET c == dll_get_image_description(m) IN
    IF c.ret[1] # dll_success THEN Raise(c, "AssertionError")
    ELSE IF c.ret[4] # 16 THEN Raise(c, "AssertionError")
    ELSE IF c.ret[5] # 4 THEN Raise(c, "AssertionError")
    ELSE [c EXCEPT !.self.width = c.ret[2],
                   !.self.height = c.ret[3],
                   !.self.bit_depth = c.ret[4]]

\* lines 44-47: bytes(video_format), or bytes(video_format, encoding='ascii')
\* for a str; None when the str does not encode
to_bytes(video_format) ==
    IF video_format.type = "bytes" THEN Some(video_format.chars)
    ELSE IF \A i \in 1..Len(video_format.chars) : video_format.chars[i] # "U+00E9"
         THEN Some(video_format.chars)
         ELSE None

\* a check that forgets the prefix
format_refused_no_prefix(self_, fmt) ==
    ~In(fmt, self_.video_formats)

\* lines 48-55: the format is refused before the driver is contacted
format_refused(self_, fmt) ==
    \/ ~startswith(fmt, Y16)
    \/ ~In(fmt, self_.video_formats)

\* a set_video_format that leaves the camera live
stop_if_live_skipped(m, verbose) == m

\* line 71
stop_if_live(m, verbose) ==
    IF m.self.live THEN stop_live(m) ELSE m

\* a verification that starts live and does not stop again
verify_format_left_live(m, verbose) ==
    LET v1 == start_live(m) IN
    IF Raised(v1) THEN v1 ELSE
    LET v3 == dll_get_format(v1) IN
    IF v3.ret # Y16_mode THEN Raise(v3, "FormatVerificationFailed") ELSE
    get_image_information(v3, verbose)

\* lines 77-83: the round trip, the read-back and the image description
verify_format(m, verbose) ==
    LET s5 == start_live(m) IN
    IF Raised(s5) THEN s5 ELSE
    LET s6 == stop_live(s5) IN
    IF Raised(s6) THEN s6 ELSE
    LET s7 == dll_get_format(s6) IN
    IF s7.ret # Y16_mode THEN Raise(s7, "FormatVerificationFailed") ELSE
    get_image_information(s7, verbose)

set_video_format(m, video_format, verbose) ==
    LET b == to_bytes(video_format) IN
    IF b = None THEN Raise(m, "UnicodeEncodeError") ELSE
    IF format_refused(m.self, b[1]) THEN Raise(m, "UnsupportedFormat") ELSE
    LET s1 == dll_set_video_format(m, b[1]) IN
    IF s1.ret # dll_success THEN Raise(s1, "AssertionError") ELSE
    LET s2 == dll_remove_overlay(s1) IN
    IF s2.ret # dll_success THEN Raise(s2, "AssertionError") ELSE
    LET s3 == stop_if_live(s2, verbose) IN
    IF Raised(s3) THEN s3 ELSE
    LET s4 == dll_set_format(s3, Y16_mode) IN
    IF s4.ret # dll_success THEN Raise(s4, "AssertionError") ELSE
    verify_format(s4, verbose)

\* a get_exposure that caches what was asked for instead of what the driver reports
get_exposure_requested(m, verbose) ==
    LET c == dll_get_property(m)
        asked == {i \in 1..Len(c.calls) : c.calls[i].fn = "set_property"} IN
    IF c.ret[1] # dll_success THEN Raise(c, "AssertionError")
    ELSE [c EXCEPT !.self.exposure_microseconds =
                      IF asked = {} THEN c.ret[2]
                      ELSE c.calls[CHOOSE i \in asked : TRUE].arg]

get_exposure(m, verbose) ==
    LET c == dll_get_property(m) IN
    IF c.ret[1] # dll_success THEN Raise(c, "AssertionError")
    ELSE [c EXCEPT !.self.exposure_microseconds = c.ret[2]]

\* lines 105-116: autoexposure is switched off first
disable_autoexposure(m, verbose) ==
    LET a1 == dll_get_auto_property(m) IN
    IF a1.ret[1] # dll_success THEN Raise(a1, "AssertionError") ELSE
    IF a1.ret[2] \notin {0, 1} THEN Raise(a1, "AssertionError") ELSE
    IF a1.ret[2] # 1 THEN a1 ELSE
    LET a2 == dll_set_auto_property(a1, 0) IN
    IF a2.ret # dll_success THEN Raise(a2, "AssertionError") ELSE
    LET a3 == dll_get_auto_property(a2) IN
    IF a3.ret[1] # dll_success THEN Raise(a3, "AssertionError") ELSE
    IF a3.ret[2] # 0 THEN Raise(a3, "AutoExposureDisableFailed") ELSE
    a3

\* a range check that lets the bounds through
exposure_allowed_inclusive(min_exp, exposure_microseconds, max_exp) ==
    min_exp <= exposure_microseconds /\ exposure_microseconds <= max_exp

\* line 123
exposure_allowed(min_exp, exposure_microseconds, max_exp) ==
    min_exp < exposure_microseconds /\ exposure_microseconds < max_exp

\* exposure_seconds is given in half microseconds, so that
\* exposure_seconds * 1e6 is the quotient exposure_seconds / 2
set_exposure(m, exposure_seconds, verbose) ==
    LET e1 == disable_autoexposure(m, verbose) IN
    IF Raised(e1) THEN e1 ELSE
    LET e2 == dll_get_property_range(e1) IN
    IF e2.ret[1] # dll_success THEN Raise(e2, "AssertionError") ELSE
    LET exposure_microseconds == int(exposure_seconds, 2) IN
    IF ~exposure_allowed(e2.ret[2], exposure_microseconds, e2.ret[3])
    THEN Raise(e2, "ExposureOutOfRange") ELSE
    LET e3 == dll_set_property(e2, exposure_microseconds) IN
    IF e3.ret # dll_success THEN Raise(e3, "AssertionError") ELSE
    get_exposure(e3, verbose)

\* np.ctypeslib.as_array(pointer, (n,)): the first n bytes at the pointer
as_array(pointer, n) ==
    [i \in 1..n |-> IF i <= Len(pointer) THEN pointer[i] ELSE 0]

\* image.view(dtype=np.uint16): pairs of bytes, little-endian
view_uint16(bytes_) ==
    [i \in 1..(Len(bytes_) \div 2) |-> bytes_[2 * i - 1] + 256 * bytes_[2 * i]]

\* np.right_shift(image, 4) on 16-bit samples
right_shift(samples, k) ==
    [i \in 1..Len(samples) |-> samples[i] \div (2 ^ k)]

\* leaves the image in m.ret: [shape, dtype, data], data row-major
snapped_image_as_numpy_array(m) ==
    LET c == dll_get_image_pointer(m)
        bytes_per_pixel == c.self.bit_depth \div 8
        bytes_per_image == c.self.width * c.self.height * bytes_per_pixel
        image == view_uint16(as_array(c.ret, bytes_per_image)) IN
    [c EXCEPT !.ret = [shape |-> <<c.self.height, c.self.width>>,
                       dtype |-> "uint16",
                       data  |-> right_shift(image, 4)]]

\* a name is looked up among the function's locals, then the module's globals
NameDefined(name, locals) ==
    name \in (locals \cup ModuleGlobals)

save_snapped_image_as_tif(m, filename, verbose) ==
    IF ~m.np_tif THEN Raise(m, "UserWarning") ELSE
    IF ~endswith(filename, DotTif) THEN Raise(m, "AssertionError") ELSE
    IF verbose /\ ~NameDefined("image", {"self", "filename", "verbose"})
    THEN Raise(m, "NameError") ELSE
    LET c == snapped_image_as_numpy_array(m) IN
    [c EXCEPT !.tif = Some(c.ret)]

\* called by snap with the caller's buffer, which is m.out
copy_snapped_image_to_numpy_array(m, output_array, verbose) ==
    IF ~NameDefined("_snapped_image_as_numpy_array",
                    {"self", "output_array", "verbose"})
    THEN Raise(m, "NameError") ELSE
    LET c == snapped_image_as_numpy_array(m)
        image == c.ret IN
    IF output_array = None THEN c ELSE
    IF c.out.shape # image.shape THEN Raise(c, "OutputBufferMismatch") ELSE
    IF c.out.dtype # image.dtype THEN Raise(c, "OutputBufferMismatch") ELSE
    [c EXCEPT !.out.data = image.data]

\* a snap that does not check where the image goes
no_destination_unchecked(filename, output_array) == FALSE

\* line 164
no_destination(filename, output_array) ==
    filename = None /\ output_array = None

\* a snap that tries start_live once more when it failed
go_live_retrying(m, verbose) ==
    IF m.self.live THEN m ELSE
    LET s == start_live(m) IN
    IF Raised(s) THEN start_live([s EXCEPT !.err = "ok"]) ELSE s

\* lines 182-186
go_live(m, verbose) ==
    IF m.self.live THEN m ELSE start_live(m)

\* a snap that stays live
restore_live_never(m, already_live, verbose) == m

\* lines 192-193
restore_live(m, already_live, verbose) ==
    IF ~already_live THEN stop_live(m) ELSE m

\* a snap that puts the live state back also when the driver's snap failed
snap_always_restoring(m, filename, timeout_milliseconds, verbose, output_array) ==
    IF no_destination(filename, output_array)
    THEN Raise(m, "NoOutputDestination") ELSE
    LET already_live == m.self.live
        n1 == go_live(m, verbose) IN
    IF Raised(n1) THEN n1 ELSE
    LET timeout == IF timeout_milliseconds = None THEN NoTimeout
                   ELSE int(timeout_milliseconds[1], 2)
        n2 == dll_snap_image(n1, timeout)
        n3 == restore_live(n2, already_live, verbose) IN
    IF n2.ret # dll_success THEN Raise(n3, "SnapFailed") ELSE
    IF Raised(n3) THEN n3 ELSE
    LET n4 == IF filename # None
              THEN save_snapped_image_as_tif(n3, filename[1], verbose)
              ELSE n3 IN
    IF Raised(n4) THEN n4 ELSE
    IF output_array # None
    THEN copy_snapped_image_to_numpy_array(n4, output_array, verbose)
    ELSE n4

\* timeout_milliseconds is None or Some(t), t in half milliseconds
snap(m, filename, timeout_milliseconds, verbose, output_array) ==
    IF no_destination(filename, output_array)
    THEN Raise(m, "NoOutputDestination") ELSE
    LET already_live == m.self.live
        n1 == go_live(m, verbose) IN
    IF Raised(n1) THEN n1 ELSE
    LET timeout == IF timeout_milliseconds = None THEN NoTimeout
                   ELSE int(timeout_milliseconds[1], 2)
        n2 == dll_snap_image(n1, timeout) IN
    IF n2.ret # dll_success THEN Raise(n2, "SnapFailed") ELSE
    LET n3 == restore_live(n2, already_live, verbose) IN
    IF Raised(n3) THEN n3 ELSE
    LET n4 == IF filename # None
              THEN save_snapped_image_as_tif(n3, filename[1], verbose)
              ELSE n3 IN
    IF Raised(n4) THEN n4 ELSE
    IF output_array # None
    THEN copy_snapped_image_to_numpy_array(n4, output_array, verbose)
    ELSE n4

enable_trigger(m, enable) ==
    LET t1 == dll_is_trigger_available(m) IN
    IF t1.ret # 1 THEN Raise(t1, "TriggerUnsupported") ELSE
    dll_enable_trigger(t1, enable)

send_trigger(m) ==
    LET c == dll_software_trigger(m) IN
    IF c.ret # dll_success THEN Raise(c, "TriggerFailed") ELSE c

\* a close that releases the handle without stopping
close_without_stop(m, verbose) ==
    dll_release_grabber(m)

close(m, verbose) ==
    LET c == IF m.self.live THEN stop_live(m) ELSE m IN
    IF Raised(c) THEN c ELSE
    dll_release_grabber(c)

Whitespace == {" ", "\t", "\n"}

\* bytes.split(): the maximal runs of non-whitespace
RECURSIVE split_loop(_, _, _)
split_loop(s, word, words) ==
    IF s = <<>>
    THEN IF word = <<>> THEN words ELSE Append(words, word)
    ELSE IF Head(s) \in Whitespace
         THEN split_loop(Tail(s), <<>>,
                         IF word = <<>> THEN words ELSE Append(words, word))
         ELSE split_loop(Tail(s), Append(word, Head(s)), words)

split(s) == split_loop(s, <<>>, <<>>)

DMK == <<"D", "M", "K">>
Model_33GP031 == <<"3", "3", "G", "P", "0", "3", "1">>
Model_23GP031 == <<"2", "3", "G", "P", "0", "3", "1">>

\* a test that does not count the name's tokens
is_our_camera_any_length(name) ==
    /\ Len(split(name)) >= 2
    /\ split(name)[1] = DMK
    /\ split(name)[2] \in {Model_33GP031, Model_23GP031}

\* lines 14-16
is_our_camera(name) ==
    /\ Len(split(name)) = 3
    /\ split(name)[1] = DMK
    /\ split(name)[2] \in {Model_33GP031, Model_23GP031}

\* lines 12-22: leaves Some(name) in m.ret, or None when the loop ends without break
RECURSIVE find_camera(_, _, _)
find_camera(m, d, num_devices) ==
    IF d >= num_devices THEN [m EXCEPT !.ret = None] ELSE
    LET c == dll_get_unique_name_from_list(m, d) IN
    IF is_our_camera(c.ret) THEN [c EXCEPT !.ret = Some(c.ret)]
    ELSE find_camera(c, d + 1, num_devices)

\* lines 33-35
RECURSIVE enumerate_formats(_, _, _)
enumerate_formats(m, f, num_formats) ==
    IF f >= num_formats THEN m ELSE
    LET c == dll_get_video_format(m, f) IN
    enumerate_formats([c EXCEPT !.self.video_formats = Append(@, c.ret)],
                      f + 1, num_formats)

\* lines 25-28
take_custody(m) ==
    LET h == dll_create_grabber(m)
        g == [h EXCEPT !.self.handle = h.ret]
        o == dll_open_by_name(g, g.self.name) IN
    IF o.ret # dll_success THEN Raise(o, "DeviceOpenFailed") ELSE
    LET v == dll_is_valid(o) IN
    IF v.ret # dll_success THEN Raise(v, "DeviceOpenFailed") ELSE v

init(m, verbose) ==
    LET c0 == dll_get_device_count(m)
        f  == find_camera(c0, 0, c0.ret) IN
    IF f.ret = None THEN Raise(f, "DeviceNotFound") ELSE
    LET s == [f EXCEPT !.self.name = f.ret[1], !.self.live = FALSE]
        v == take_custody(s) IN
    IF Raised(v) THEN v ELSE
    LET n == dll_get_video_format_count(v)
        e == enumerate_formats([n EXCEPT !.self.video_formats = <<>>], 0, n.ret) IN
    IF ~In(Y16_2592x1944, e.self.video_formats) THEN Raise(e, "AssertionError") ELSE
    LET vf == set_video_format(e, [type |-> "bytes", chars |-> Y16_2592x1944], verbose) IN
    IF Raised(vf) THEN vf ELSE
    LET ex == set_exposure(vf, DefaultExposureSeconds, verbose) IN
    IF Raised(ex) THEN ex ELSE
    enable_trigger(ex, FALSE)

----------------------------------------------------------------------------
(* What the actions draw their inputs from *)

Name(model, serial) == DMK \o <<" ">> \o model \o <<" ">> \o serial

\* the device lists the driver may enumerate
DeviceLists ==
    { <<>>,
      << <<"D","F","K"," ">> \o Model_33GP031 \o <<" ", "7">>,
         Name(<<"3","3","U","X","1","7","4">>, <<"7">>) >>,
      << DMK \o <<" ">> \o Model_33GP031 >>,
      << Name(Model_33GP031, <<"7", " ", "x">>),
         DMK \o <<"\t">> \o Model_23GP031 \o <<" ", " ", "8">>,
         Name(Model_33GP031, <<"7">>) >> }

\* the video formats the device may support
FormatLists ==
    { <<Y800_2592x1944>>,
      <<Y800_2592x1944, Y16_1024x768, Y16_2592x1944>> }

\* the values callers pass as video_format
FormatRequests ==
    { [type |-> "bytes", chars |-> Y16_2592x1944],
      [type |-> "str",   chars |-> Y16_1024x768],
      [type |-> "bytes", chars |-> Y16_640x480],
      [type |-> "str",   chars |-> Y800_2592x1944],
      [type |-> "bytes", chars |-> <<"Y", "1">>],
      [type |-> "str",   chars |-> Y16 \o <<"U+00E9">>] }

\* the exposure __init__ asks for, in microseconds
DefaultExposure == int(DefaultExposureSeconds, 2)

\* the exposure ranges (min, max) the driver may report
Ranges ==
    { <<DefaultExposure - ExpRadius, DefaultExposure + ExpRadius>>,
      <<DefaultExposure, DefaultExposure + ExpRadius>> }

\* the exposures callers ask for, in half microseconds
ExposureRequests(range) ==
    (2 * range[1] - 1) .. (2 * range[2] + 1)

\* what the driver may answer to get_format and get_image_description:
\* <<sink format, bit depth, color>>
GoodReport == <<Y16_mode, 16, 4>>
DriverReports ==
    { GoodReport, <<0, 16, 4>>, <<Y16_mode, 8, 4>>, <<Y16_mode, 16, 1>> }

\* the driver's answers to a method of at most n calls: <<failAt, report>>.
\* A method ends at the first answer it refuses, so one refused answer each.
DriverAnswers(n) ==
    { <<failAt, GoodReport>> : failAt \in 0..n }
    \cup { <<0, report>> : report \in DriverReports }

\* the buffers callers pass as output_array
Buffers ==
    { [shape |-> <<1, 2>>, dtype |-> "uint16", data |-> <<7, 7>>],
      [shape |-> <<2, 1>>, dtype |-> "uint16", data |-> <<7, 7>>],
      [shape |-> <<1, 2>>, dtype |-> "uint8",  data |-> <<7, 7>>] }

TifName == <<"x">> \o DotTif
PngName == <<"x", ".", "p", "n", "g">>

\* the calls of snap: <<filename, timeout_milliseconds, verbose, output_array>>,
\* the timeout in half milliseconds
SnapCalls ==
    { <<None, None, TRUE, None>>,
      <<Some(TifName), None, TRUE, None>>,
      <<Some(TifName), Some(3), FALSE, None>>,
      <<Some(PngName), None, FALSE, None>> }
    \cup { <<None, None, TRUE, Some(b)>> : b \in Buffers }
    \cup { <<Some(TifName), Some(3), FALSE, Some(b)>> : b \in Buffers }

\* the position of the last status-returning driver call a method can make
CallsOf(method) ==
    CASE method = "set_video_format" -> MaxCalls
      [] method = "set_exposure" -> MaxCalls - 2
      [] method = "snap" -> MaxCalls \div 4
      [] method = "enable_trigger" -> MaxCalls \div 4
      [] OTHER -> MaxCalls \div 8

NoBuffer == [shape |-> <<0, 0>>, dtype |-> "uint16", data |-> <<>>]

NoSelf ==
    [name |-> <<>>, live |-> FALSE, handle |-> FALSE, video_formats |-> <<>>,
     width |-> 0, height |-> 0, bit_depth |-> 0, exposure_microseconds |-> 0]

\* the driver's answers to one method
D(failAt, honour, frame, report) ==
    [failAt |-> failAt, honour |-> honour, frame |-> frame, report |-> report]

D0(failAt) ==
    D(failAt, TRUE, drv.frame, GoodReport)

\* the machine a method starts on
Machine(d) ==
    [self |-> self, drv |-> drv, out |-> NoBuffer, tif |-> None, np_tif |-> np_tif,
     calls |-> <<>>, err |-> "ok", ret |-> None, d |-> d]

\* the machine with the caller's buffer, if it passes one
Passing(m, output_array) ==
    IF output_array = None THEN m ELSE [m EXCEPT !.out = output_array[1]]

\* the call being made: its name, the session's flag and the handle at entry
Op(name) ==
    [name |-> name, live |-> self.live, released |-> drv.released,
     video_format |-> [type |-> "bytes", chars |-> <<>>], exposure_seconds |-> 0,
     filename |-> None, output_array |-> None, verbose |-> TRUE]

\* the state a method leaves
Return(m, o) ==
    /\ self' = m.self
    /\ drv' = m.drv
    /\ buffer' = m.out
    /\ tif' = m.tif
    /\ calls' = m.calls
    /\ result' = m.err
    /\ op' = o
    /\ UNCHANGED <<phase, np_tif>>

\* the state __init__ leaves: the object exists only if it did not raise
Constructed(m) ==
    /\ phase' = IF Raised(m) THEN "failed" ELSE "open"
    /\ self' = IF Raised(m) THEN NoSelf ELSE m.self
    /\ drv' = m.drv
    /\ buffer' = m.out
    /\ tif' = m.tif
    /\ calls' = m.calls
    /\ result' = m.err
    /\ op' = Op("__init__")
    /\ UNCHANGED np_tif

----------------------------------------------------------------------------
(* The state machine *)

Init ==
    /\ phase = "new"
    /\ self = NoSelf
    /\ \E devices \in DeviceLists, formats \in FormatLists,
          range \in Ranges, auto \in {0, 1} :
          drv = [streaming |-> FALSE, created |-> FALSE, opened |-> FALSE,
                 released |-> FALSE, devices |-> devices, formats |-> formats,
                 videoFormat |-> formats[1], auto |-> auto, range |-> range,
                 exposure |-> range[1], frame |-> <<15, 0, 52, 18>>]
    /\ np_tif \in BOOLEAN
    /\ buffer = NoBuffer
    /\ tif = None
    /\ op = Op("import")
    /\ calls = <<>>
    /\ result = "ok"

\* camera = DMK_x3GP031()
Construct ==
    /\ phase = "new"
    /\ \E answer \in DriverAnswers(MaxInitCalls), honour \in BOOLEAN :
          Constructed(init(Machine(D(answer[1], honour, drv.frame, answer[2])), TRUE))

StartLive ==
    /\ phase = "open"
    /\ \E failAt \in 0..CallsOf("start_live") :
          Return(start_live(Machine(D0(failAt))), Op("start_live"))

StopLive ==
    /\ phase = "open"
    /\ Return(stop_live(Machine(D0(0))), Op("stop_live"))

SetVideoFormat ==
    /\ phase = "open"
    /\ \E answer \in DriverAnswers(CallsOf("set_video_format")),
          video_format \in FormatRequests :
          Return(set_video_format(
                     Machine(D(answer[1], TRUE, drv.frame, answer[2])),
                     video_format, TRUE),
                 [Op("set_video_format") EXCEPT !.video_format = video_format])

GetImageInformation ==
    /\ phase = "open"
    /\ \E answer \in DriverAnswers(CallsOf("get_image_information")) :
          Return(get_image_information(
                     Machine(D(answer[1], TRUE, drv.frame, answer[2])), TRUE),
                 Op("get_image_information"))

SetExposure ==
    /\ phase = "open"
    /\ \E failAt \in 0..CallsOf("set_exposure"),
          honour \in (IF drv.auto = 1 THEN BOOLEAN ELSE {TRUE}),
          exposure_seconds \in ExposureRequests(drv.range) :
          Return(set_exposure(
                     Machine(D(failAt, honour, drv.frame, GoodReport)),
                     exposure_seconds, TRUE),
                 [Op("set_exposure") EXCEPT !.exposure_seconds = exposure_seconds])

GetExposure ==
    /\ phase = "open"
    /\ \E failAt \in 0..CallsOf("get_exposure") :
          Return(get_exposure(Machine(D0(failAt)), TRUE), Op("get_exposure"))

Snap ==
    /\ phase = "open"
    /\ \E failAt \in 0..CallsOf("snap"), frame \in Frames, call \in SnapCalls :
          Return(snap(Passing(Machine(D(failAt, TRUE, frame, GoodReport)), call[4]),
                      call[1], call[2], call[3], call[4]),
                 [Op("snap") EXCEPT !.filename = call[1],
                                    !.output_array = call[4],
                                    !.verbose = call[3]])

EnableTrigger ==
    /\ phase = "open"
    /\ \E failAt \in 0..CallsOf("enable_trigger"), enable \in BOOLEAN :
          Return(enable_trigger(Machine(D0(failAt)), enable), Op("enable_trigger"))

SendTrigger ==
    /\ phase = "open"
    /\ \E failAt \in 0..CallsOf("send_trigger") :
          Return(send_trigger(Machine(D0(failAt))), Op("send_trigger"))

Close ==
    /\ phase = "open"
    /\ Return(close(Machine(D0(0)), TRUE), Op("close"))

Next ==
    \/ Construct
    \/ StartLive
    \/ StopLive
    \/ SetVideoFormat
    \/ GetImageInformation
    \/ SetExposure
    \/ GetExposure
    \/ Snap
    \/ EnableTrigger
    \/ SendTrigger
    \/ Close

Spec == Init /\ [][Next]_vars

----------------------------------------------------------------------------
(* What the properties below read off a state *)

\* the entry points called, in order
Names(cs) == [i \in 1..Len(cs) |-> cs[i].fn]

\* no driver call reported failure
Succeeded(cs) == \A i \in 1..Len(cs) : cs[i].st # dll_error

IsLiveCall(fn) == fn \in {"start_live", "snap_image", "stop_live"}

\* the token starts with "Y16"
HasY16Prefix(token) ==
    /\ Len(token) >= 3
    /\ token[1] = "Y" /\ token[2] = "1" /\ token[3] = "6"

\* the token is one of the formats enumerated at open time
Enumerated(token, formats) ==
    token \in {formats[i] : i \in 1..Len(formats)}

\* the microseconds asked for by a request in half microseconds (requests are positive)
Microseconds(request) == request \div 2

\* the request is at or outside the driver's bounds
OutOfBounds(request, range) ==
    Microseconds(request) <= range[1] \/ Microseconds(request) >= range[2]

----------------------------------------------------------------------------
(* C1: on an open session (the handle not released), the session's live     *)
(* flag equals the device's streaming state after every call, whatever the  *)
(* driver answered.                                                         *)
C1_LiveTracksDevice ==
    (phase = "open" /\ ~drv.released) => (self.live = drv.streaming)

\* a snap on a stopped session whose driver snap failed: flag and device are both live
C1_Witness ==
    /\ op.name = "snap" /\ ~op.live /\ ~op.released
    /\ result = "SnapFailed"
    /\ self.live /\ drv.streaming

(* C2: snap with neither a filename nor an output buffer raises             *)
(* NoOutputDestination, issues no driver call and changes neither the       *)
(* session nor the device.                                                  *)
C2_NoDestinationNoSideEffect ==
    [][ (op'.name = "snap" /\ op'.filename = None /\ op'.output_array = None)
        => /\ result' = "NoOutputDestination"
           /\ calls' = <<>>
           /\ self' = self
           /\ drv' = drv ]_vars

C2_Witness ==
    /\ op.name = "snap" /\ op.filename = None /\ op.output_array = None
    /\ result = "NoOutputDestination"
    /\ calls = <<>>

(* C3: a snap with a destination whose driver calls all succeed issues, on  *)
(* a live session, snap_image with no start_live or stop_live, and on a     *)
(* stopped session start_live, snap_image, stop_live in that order; the     *)
(* live flag after the snap is the live flag before it.                     *)
C3_SnapRestoresLive ==
    (/\ op.name = "snap"
     /\ (op.filename # None \/ op.output_array # None)
     /\ Succeeded(calls))
    => /\ SelectSeq(Names(calls), IsLiveCall) =
              IF op.live THEN <<"snap_image">>
              ELSE <<"start_live", "snap_image", "stop_live">>
       /\ self.live = op.live

\* a snap on a stopped, open session that returned
C3_Witness ==
    /\ op.name = "snap" /\ ~op.live /\ ~op.released
    /\ result = "ok"
    /\ SelectSeq(Names(calls), IsLiveCall) = <<"start_live", "snap_image", "stop_live">>
    /\ ~self.live /\ ~drv.streaming

(* C4: set_video_format with a token that lacks the Y16 prefix, or that is  *)
(* not among the formats enumerated at open time, raises UnsupportedFormat, *)
(* issues no driver call and changes neither the session (live flag, width, *)
(* height, bit depth) nor the device.  A token is the request once it is    *)
(* bytes; a str that does not encode raises before it is one, and it too    *)
(* reaches no driver call.                                                  *)
C4_RefusedFormatNoDriverCall ==
    [][ (/\ op'.name = "set_video_format"
         /\ \/ ~HasY16Prefix(op'.video_format.chars)
            \/ ~Enumerated(op'.video_format.chars, self.video_formats))
        => /\ result' = IF "U+00E9" \in {op'.video_format.chars[i] :
                                          i \in 1..Len(op'.video_format.chars)}
                        THEN "UnicodeEncodeError" ELSE "UnsupportedFormat"
           /\ calls' = <<>>
           /\ self' = self
           /\ drv' = drv ]_vars

\* a format the device enumerates, but not a Y16 one
C4_Witness ==
    /\ op.name = "set_video_format"
    /\ op.video_format.chars = Y800_2592x1944
    /\ Enumerated(Y800_2592x1944, self.video_formats)
    /\ result = "UnsupportedFormat"
    /\ calls = <<>>

(* C5: a set_video_format that returns has issued exactly: set video        *)
(* format, remove overlay, stop live (only if the session was live), set    *)
(* sink format, start live, stop live, read sink format, image description. *)
(* The sink format is set while the device is stopped, and it is read back  *)
(* after the start-live/stop-live round trip.                               *)
C5_FormatNegotiationOrder ==
    (op.name = "set_video_format" /\ result = "ok")
    => /\ Names(calls) =
              <<"set_video_format", "remove_overlay">>
              \o (IF op.live THEN <<"stop_live">> ELSE <<>>)
              \o <<"set_format", "start_live", "stop_live",
                   "get_format", "get_image_description">>
       /\ \A i \in 1..Len(calls) :
              /\ calls[i].fn = "set_format" => ~calls[i].dev
              /\ calls[i].fn = "get_format" =>
                    /\ i > 2
                    /\ calls[i - 2].fn = "start_live"
                    /\ calls[i - 1].fn = "stop_live"

\* a successful set_video_format on a live, open session
C5_Witness ==
    /\ op.name = "set_video_format" /\ op.live /\ ~op.released
    /\ result = "ok"
    /\ Len(calls) = 8
    /\ calls[3].fn = "stop_live" /\ calls[3].dev

\* set_exposure has begun: its first driver call was made
ExposureBegun(cs) ==
    \E i \in 1..Len(cs) : cs[i].fn = "get_auto_property"

\* the exposure a call asks for, in half microseconds
Request(o) ==
    IF o.name = "__init__" THEN DefaultExposureSeconds ELSE o.exposure_seconds

(* C6, as claimed: when set_exposure raises ExposureOutOfRange, the         *)
(* driver's exposure property, its auto-exposure setting and the cached     *)
(* exposure are what they were before the call, whatever the auto-exposure  *)
(* setting was at entry.                                                    *)
C6_ExposureStateUnchanged ==
    [][ (result' = "ExposureOutOfRange")
        => /\ drv'.exposure = drv.exposure
           /\ drv'.auto = drv.auto
           /\ self'.exposure_microseconds = self.exposure_microseconds ]_vars

(* C6, amended: for a request at or outside the driver's bounds,            *)
(* set_exposure (called by the caller or by __init__) never succeeds and    *)
(* leaves the driver's exposure property and the cached exposure as they    *)
(* were; when the driver calls succeed and auto-exposure is off, or is      *)
(* confirmed switched off, it raises ExposureOutOfRange.  The auto-exposure *)
(* setting is as before only if it was off at entry: if it was on, it has   *)
(* been switched off before the range check and stays off.                  *)
C6_OutOfRangeKeepsExposure ==
    [][ (/\ op'.name \in {"set_exposure", "__init__"}
         /\ ExposureBegun(calls')
         /\ OutOfBounds(Request(op'), drv.range))
        => /\ result' # "ok"
           /\ drv'.exposure = drv.exposure
           /\ self'.exposure_microseconds = self.exposure_microseconds
           /\ (drv.auto = 0 => drv'.auto = 0)
           /\ (Succeeded(calls') /\ drv'.auto = 0) => result' = "ExposureOutOfRange"
           /\ result' = "ExposureOutOfRange" => drv'.auto = 0 ]_vars

\* the request is refused after auto-exposure, on at entry, was switched off
C6_Witness ==
    /\ result = "ExposureOutOfRange"
    /\ \E i \in 1..Len(calls) : calls[i].fn = "set_auto_property" /\ calls[i].arg = 0
    /\ drv.auto = 0
    /\ Microseconds(Request(op)) = drv.range[1]

(* C7: on an open session, for a request strictly between the driver's min  *)
(* and max and driver calls that succeed, set_exposure returns, it has      *)
(* passed the requested microseconds to the driver's set-property, and the  *)
(* cached exposure_microseconds is the value the driver reports on re-read, *)
(* also when the driver rounded the request.                                *)
C7_CachedExposureIsDriverValue ==
    (/\ op.name = "set_exposure" /\ ~op.released
     /\ ~OutOfBounds(op.exposure_seconds, drv.range)
     /\ Succeeded(calls))
    => /\ result = "ok"
       /\ \E i \in 1..Len(calls) :
              /\ calls[i].fn = "set_property"
              /\ calls[i].arg = Microseconds(op.exposure_seconds)
       /\ self.exposure_microseconds = drv.exposure

\* the driver rounded: the cached value is not the requested one
C7_Witness ==
    /\ op.name = "set_exposure" /\ ~op.released
    /\ result = "ok"
    /\ self.exposure_microseconds = drv.exposure
    /\ self.exposure_microseconds # Microseconds(op.exposure_seconds)

(* C8: close on an open session issues stop_live then release_grabber if    *)
(* the session is live, and release_grabber alone if it is stopped; the     *)
(* handle is released exactly once, and the device is not streaming when    *)
(* it is released.                                                          *)
C8_CloseStopsBeforeRelease ==
    (op.name = "close" /\ ~op.released)
    => /\ Names(calls) = IF op.live THEN <<"stop_live", "release_grabber">>
                         ELSE <<"release_grabber">>
       /\ ~calls[Len(calls)].dev
       /\ drv.released /\ ~drv.streaming

\* a close of a live session
C8_Witness ==
    /\ op.name = "close" /\ op.live /\ ~op.released
    /\ Names(calls) = <<"stop_live", "release_grabber">>
    /\ calls[1].dev /\ ~calls[2].dev
    /\ drv.released

(* C9: a method called after close() raises SessionClosedError, and no      *)
(* driver entry point is called on a handle that has been released.         *)
C9_ClosedSessionRefuses ==
    /\ op.released => (result = "SessionClosedError" /\ calls = <<>>)
    /\ \A i \in 1..Len(calls) : ~calls[i].rel

\* the frame at the driver's pointer as 16-bit samples shifted right by 4, row-major
Normalized(frame, height, width) ==
    [i \in 1..(height * width) |-> (frame[2 * i - 1] + 256 * frame[2 * i]) \div 16]

(* C10: on an open session, a snap into a caller buffer whose shape is      *)
(* (height, width) and whose samples are 16-bit, with driver calls that     *)
(* succeed, returns and leaves in the buffer each of the driver's samples   *)
(* shifted right by 4 bits, row-major.                                      *)
C10_SnapFillsBuffer ==
    (/\ op.name = "snap" /\ ~op.released
     /\ op.filename = None /\ op.output_array # None
     /\ op.output_array[1].shape = <<self.height, self.width>>
     /\ op.output_array[1].dtype = "uint16"
     /\ Succeeded(calls))
    => /\ result = "ok"
       /\ buffer.shape = <<self.height, self.width>>
       /\ buffer.data = Normalized(drv.frame, self.height, self.width)

\* the caller's buffer does not have the frame's shape and sample type
Mismatched(b, height, width) ==
    b.shape # <<height, width>> \/ b.dtype # "uint16"

(* C11: on an open session, a snap into a caller buffer whose shape or      *)
(* sample type differs from the frame's, with driver calls that succeed,    *)
(* raises OutputBufferMismatch, and every element of the buffer is what it  *)
(* was before the call.                                                     *)
C11_MismatchedBufferRefused ==
    (/\ op.name = "snap" /\ ~op.released
     /\ op.filename = None /\ op.output_array # None
     /\ Mismatched(op.output_array[1], self.height, self.width)
     /\ Succeeded(calls))
    => /\ result = "OutputBufferMismatch"
       /\ buffer = op.output_array[1]

\* where the whitespace-separated tokens of a name begin
WordStarts(s) ==
    {i \in 1..Len(s) : s[i] \notin Whitespace /\ (i = 1 \/ s[i - 1] \in Whitespace)}

\* the token that begins at i
WordFrom(s, i) ==
    SubSeq(s, i, CHOOSE j \in i..Len(s) :
                     /\ \A k \in i..j : s[k] \notin Whitespace
                     /\ (j = Len(s) \/ s[j + 1] \in Whitespace))

\* the n-th token of a name that has at least n
Word(s, n) ==
    WordFrom(s, CHOOSE i \in WordStarts(s) :
                    Cardinality({j \in WordStarts(s) : j < i}) = n - 1)

\* exactly three tokens, the first "DMK", the second a whitelisted model
ThreeTokenCamera(name) ==
    /\ Cardinality(WordStarts(name)) = 3
    /\ Word(name, 1) = <<"D", "M", "K">>
    /\ Word(name, 2) \in { <<"3", "3", "G", "P", "0", "3", "1">>,
                          <<"2", "3", "G", "P", "0", "3", "1">> }

\* the positions, in enumeration order, of the devices that match
Matching(devices) ==
    {i \in 1..Len(devices) : ThreeTokenCamera(devices[i])}

(* C12: construction selects the first enumerated device whose name has     *)
(* exactly three whitespace-separated tokens, the first "DMK" and the       *)
(* second a whitelisted model: it asks for no name beyond that device's,    *)
(* opens that name, and keeps it as the session's name.  If no device       *)
(* matches, also when none is enumerated, it raises DeviceNotFound without  *)
(* creating a grabber handle or opening a device.                           *)
C12_FirstMatchingDeviceSelected ==
    (op.name = "__init__")
    => IF Matching(drv.devices) = {}
       THEN /\ result = "DeviceNotFound"
            /\ \A i \in 1..Len(calls) :
                   calls[i].fn \notin {"create_grabber", "open_by_name"}
            /\ ~drv.created /\ ~drv.opened
       ELSE LET first == CHOOSE i \in Matching(drv.devices) :
                             \A j \in Matching(drv.devices) : i <= j IN
            /\ result # "DeviceNotFound"
            /\ \E i \in 1..Len(calls) : calls[i].fn = "open_by_name"
            /\ \A i \in 1..Len(calls) :
                   /\ calls[i].fn = "open_by_name" =>
                          calls[i].arg = drv.devices[first]
                   /\ calls[i].fn = "get_unique_name_from_list" =>
                          calls[i].arg < first
            /\ result = "ok" => self.name = drv.devices[first]

\* the second of three devices is selected: the first has a fourth token
C12_Witness ==
    /\ op.name = "__init__" /\ result = "ok"
    /\ Len(drv.devices) = 3
    /\ ~ThreeTokenCamera(drv.devices[1])
    /\ ThreeTokenCamera(drv.devices[2]) /\ ThreeTokenCamera(drv.devices[3])
    /\ self.name = drv.devices[2]

\* the handle was acquired: create_grabber was called
HandleAcquired(cs) ==
    \E i \in 1..Len(cs) : cs[i].fn = "create_grabber"

(* C13: when construction fails after the grabber handle was created, the   *)
(* handle has been released to the driver when the error reaches the        *)
(* caller: release_grabber was called after create_grabber, and the driver  *)
(* holds no unreleased handle.                                              *)
C13_FailedConstructionReleases ==
    (op.name = "__init__" /\ result # "ok" /\ HandleAcquired(calls))
    => /\ \E i, j \in 1..Len(calls) :
              /\ i < j
              /\ calls[i].fn = "create_grabber"
              /\ calls[j].fn = "release_grabber"
       /\ drv.released

\* the driver call at position i reported failure
Failed(cs, i) == cs[i].st = dll_error

(* C14, as claimed: in every operation, a status-returning driver call that *)
(* reports failure is the operation's last driver call, and the operation   *)
(* ends with an error.                                                      *)
C14_FailureEndsOperation ==
    \A i \in 1..Len(calls) :
        Failed(calls, i) => (i = Len(calls) /\ result # "ok")

(* C14, amended: in every operation (construction included), a driver call  *)
(* that reports failure is the operation's last driver call, so no entry    *)
(* point is called again after it; and the operation ends with an error,    *)
(* unless the call is enable_trigger's enable call, whose status is not     *)
(* checked.                                                                 *)
C14_NoCallAfterFailure ==
    \A i \in 1..Len(calls) :
        Failed(calls, i)
        => /\ i = Len(calls)
           /\ (calls[i].fn # "enable_trigger" => result # "ok")
           /\ (calls[i].fn = "enable_trigger" => result = "ok")

\* a set_video_format whose start_live reported failure: nothing follows it
C14_Witness ==
    /\ op.name = "set_video_format" /\ ~op.released
    /\ result = "StartLiveFailed"
    /\ calls # <<>>
    /\ calls[Len(calls)].fn = "start_live"
    /\ Failed(calls, Len(calls))
    /\ \E i \in 1..Len(calls) : calls[i].fn = "set_format"

\* the driver's snap call was made and reported failure
SnapImageFailed(cs) ==
    \E i \in 1..Len(cs) : cs[i].fn = "snap_image" /\ cs[i].st = dll_error

\* the driver's snap call was made and reported success
SnapImageSucceeded(cs) ==
    \E i \in 1..Len(cs) : cs[i].fn = "snap_image" /\ cs[i].st = dll_success

(* C15: a snap on a stopped, open session whose driver snap call reports    *)
(* failure raises SnapFailed without issuing stop_live, and leaves the live *)
(* flag and the device live; a snap on a stopped session issues stop_live   *)
(* only after the driver's snap call succeeded.                             *)
C15_FailedSnapStaysLive ==
    (op.name = "snap" /\ ~op.live /\ ~op.released)
    => /\ SnapImageFailed(calls)
          => /\ result = "SnapFailed"
             /\ Names(calls) = <<"start_live", "snap_image">>
             /\ self.live /\ drv.streaming
       /\ (\E i \in 1..Len(calls) : calls[i].fn = "stop_live")
          => SnapImageSucceeded(calls)

\* a timed snap to a file on a stopped session, the driver's snap failing
C15_Witness ==
    /\ op.name = "snap" /\ ~op.live /\ ~op.released
    /\ op.filename # None
    /\ SnapImageFailed(calls)
    /\ calls[Len(calls)].fn = "snap_image" /\ calls[Len(calls)].arg # NoTimeout
    /\ result = "SnapFailed"
    /\ self.live /\ drv.streaming

(* C16: a set_video_format that returns on an open session leaves the       *)
(* session stopped, flag and device, whether it was live or stopped at the  *)
(* call.                                                                    *)
C16_FormatChangeLeavesStopped ==
    (op.name = "set_video_format" /\ ~op.released /\ result = "ok")
    => (~self.live /\ ~drv.streaming)

\* the session was live at the call and is stopped after it
C16_Witness ==
    /\ op.name = "set_video_format" /\ ~op.released /\ result = "ok"
    /\ op.live
    /\ ~self.live /\ ~drv.streaming
    /\ drv.videoFormat = op.video_format.chars

============================================================================
